---- MODULE Spec2Model ----
(***************************************************************************)
(* Model of the Maxxon EPOS real time serial driver (src/src/epos.c).      *)
(*                                                                         *)
(* The driver is a state machine shared by two kinds of context: callers   *)
(* of write_object, which run statement by statement and can be preempted  *)
(* between any two statements, and the rtai_serial callback                *)
(* serial_callback, which runs to completion.  The rtai_serial transport   *)
(* is an external collaborator: the result of each of its calls and the    *)
(* (rxavail, txfree) values it reports are chosen nondeterministically.    *)
(***************************************************************************)
EXTENDS Integers, Sequences, FiniteSets, TLC

(***************************************************************************)
(* Program constants                                                       *)
(***************************************************************************)
MAX_PAYLOAD == 14
OPCODE == 17
ACK_OKAY == 79
ENODEV == 19
CRC_POLY == 33800
FRAME_LEN == 11

\* driver_state_t
READY == "READY"
SENDING_OPCODE == "SENDING_OPCODE"
WAITING_BEGIN_ACK == "WAITING_BEGIN_ACK"
SENDING_DATA == "SENDING_DATA"
WAITING_END_ACK == "WAITING_END_ACK"
WAITING_RESPONSE_LEN == "WAITING_RESPONSE_LEN"
WAITING_RESPONSE_DATA == "WAITING_RESPONSE_DATA"
SENDING_RESPONSE_ACK == "SENDING_RESPONSE_ACK"
driver_state_t == {READY, SENDING_OPCODE, WAITING_BEGIN_ACK, SENDING_DATA,
                   WAITING_END_ACK, WAITING_RESPONSE_LEN,
                   WAITING_RESPONSE_DATA, SENDING_RESPONSE_ACK}

\* write_status_t
SUCCESS == "SUCCESS"
SERIAL_BUF_FULL == "SERIAL_BUF_FULL"
DRIVER_BUSY == "DRIVER_BUSY"
UNEXPECTED_ERROR == "UNEXPECTED_ERROR"
write_status_t == {SUCCESS, SERIAL_BUF_FULL, DRIVER_BUSY, UNEXPECTED_ERROR}

\* a status that has not been assigned yet
NONE == "none"

(***************************************************************************)
(* Bounds and input sets                                                   *)
(***************************************************************************)
\* the contexts that call write_object
Procs == {"c1", "c2"}

\* largest rxavail a transport event reports
MaxRxAvail == 2

\* (index, subindex, nodeid, data) of the commands the callers issue; data
\* stays below 2^31, the largest integer TLC represents
Commands == { <<0, 0, 0, 0>>, <<8241, 0, 1, 100>>,
              <<24831, 1, 2, 305419896>>, <<65535, 255, 255, 2147483647>> }

\* the rxavail and txfree values a transport event reports
RxAvails == 0..MaxRxAvail
TxFrees == {0, FRAME_LEN, MAX_PAYLOAD}

\* a byte other than 'O' that the device may answer with
NackByte == 88

\* the bytes the device answers with
AckBytes == {ACK_OKAY, NackByte}

VARIABLES
  state,                 \* static driver_state_t state
  outbound_payload,      \* static u8 outbound_payload[MAX_PAYLOAD]
  outbound_payload_len,  \* static int outbound_payload_len
  inbound_payload_len,   \* static int inbound_payload_len
  rx_thrs, tx_thrs,      \* callback thresholds held by rtai_serial
  big_endian,            \* byte order of the host cpu
  pc,                    \* per caller: the line of write_object it is at
  args,                  \* per caller: (index, subindex, nodeid, data)
  num_not_written,       \* per caller: local of send_opcode (0 until assigned)
  stat,                  \* per caller: local stat of write_object
  crc,                   \* per caller: bytes of the local union crc (<<>>
                         \* until assigned)
  ret,                   \* per caller: value its last call returned
  io,                    \* transport calls made by the last step
  ev,                    \* (rxavail, txfree) the last step's event reported
                         \* (<<>> when the last step was a caller's)
  txn,                   \* arguments of the command whose opcode was sent
                         \* last (<<>> before the first)
  script,                \* progress along the scripted success sequence
  handshake              \* progress of the handshake of the transaction
                         \* whose opcode the transport accepted last

drv == <<state, outbound_payload, outbound_payload_len, inbound_payload_len>>
thrs == <<rx_thrs, tx_thrs>>
locals == <<pc, args, num_not_written, stat, crc, ret>>
vars == <<state, outbound_payload, outbound_payload_len, inbound_payload_len,
          rx_thrs, tx_thrs, big_endian, pc, args, num_not_written, stat, crc,
          ret, io, ev, txn, script, handshake>>

(***************************************************************************)
(* Bit arithmetic                                                          *)
(***************************************************************************)
\* bitwise exclusive or (^ in C)
xor[u \in Nat, v \in Nat] ==
  IF u = 0 THEN v
  ELSE IF v = 0 THEN u
  ELSE (((u % 2) + (v % 2)) % 2) + 2 * xor[u \div 2, v \div 2]

Xor(u, v) == xor[u, v]

\* an n-byte unsigned integer x as a machine word: its bytes by
\* significance, least significant first
RECURSIVE word(_, _)
word(x, n) ==
  IF n = 0 THEN <<>> ELSE <<x % 256>> \o word(x \div 256, n - 1)

RECURSIVE Reverse(_)
Reverse(s) == IF s = <<>> THEN <<>> ELSE Reverse(Tail(s)) \o <<Head(s)>>

\* byte swap of a word
swab(w) == Reverse(w)

\* __cpu_to_le16 / __cpu_to_le32: identity on a little-endian host, byte
\* swap on a big-endian one
cpu_to_le(w, be) == IF be THEN swab(w) ELSE w

\* the bytes[] member of a union whose integer member holds the word w: the
\* memory image of w, most significant byte first on a big-endian host
union_bytes(w, be) == IF be THEN Reverse(w) ELSE w

(***************************************************************************)
(* linux/crc-ccitt.h                                                       *)
(***************************************************************************)
\* crc_ccitt_table[i]: i shifted right eight times, the polynomial mixed
\* in after each bit that falls out
crc_shift[c \in Nat] ==
  IF c % 2 = 1 THEN Xor(c \div 2, CRC_POLY) ELSE c \div 2

RECURSIVE crc_table_entry(_, _)
crc_table_entry(c, k) ==
  IF k = 0 THEN c ELSE crc_table_entry(crc_shift[c], k - 1)

crc_ccitt_table == [i \in 0..255 |-> crc_table_entry(i, 8)]

\* (crc >> 8) ^ crc_ccitt_table[(crc ^ c) & 0xff]
crc_byte[c \in Nat, byte \in Nat] ==
  Xor(c \div 256, crc_ccitt_table[Xor(c, byte) % 256])

crc_ccitt_byte(c, byte) == crc_byte[c, byte]

RECURSIVE crc_ccitt(_, _, _)
crc_ccitt(c, buffer, len) ==
  IF len = 0 THEN c
  ELSE crc_ccitt(crc_ccitt_byte(c, Head(buffer)), Tail(buffer), len - 1)

(***************************************************************************)
(* Transport calls (rtai_serial)                                           *)
(***************************************************************************)
\* rt_spwrite(ser_port, buf, count) of the bytes given, returning res
IoWrite(buf, bytes, count, res) ==
  [op |-> "rt_spwrite", buf |-> buf, count |-> count, bytes |-> bytes,
   res |-> res]
\* rt_spread(ser_port, &ack, 1) delivering byte
IoRead(byte) ==
  [op |-> "rt_spread", buf |-> "ack", count |-> 1, bytes |-> <<byte>>,
   res |-> 0]
\* rt_spset_thrs(ser_port, rx, tx)
IoThrs(rx, tx) ==
  [op |-> "rt_spset_thrs", buf |-> "", count |-> 0, bytes |-> <<rx, tx>>,
   res |-> 0]

\* what rt_spwrite(port, buf, count) can return: the number of bytes not
\* written (0 when every byte was accepted) or -ENODEV.  With a negative
\* count the -count bytes are written only if they all fit; with a positive
\* count as many as fit are written.
rt_spwrite_results(count) ==
  IF count < 0 THEN {0, -count, -ENODEV} ELSE (0..count) \cup {-ENODEV}

\* the number of bytes the transport accepted in a call rt_spwrite(port,
\* buf, count) that returned res
rt_spwrite_accepted(count, res) ==
  IF res < 0 THEN 0
  ELSE (IF count < 0 THEN -count ELSE count) - res

\* memcpy(buf + off, src, Len(src)), with off counted from 0
memcpy(buf, off, src) ==
  [i \in 1..Len(buf) |->
     IF i > off /\ i <= off + Len(src) THEN src[i - off] ELSE buf[i]]

(***************************************************************************)
(* Initial state: the statics are zero initialised, epos_init has set the  *)
(* callback with thresholds (1, 1)                                         *)
(***************************************************************************)
Init ==
  /\ state = READY
  /\ outbound_payload = [i \in 1..MAX_PAYLOAD |-> 0]
  /\ outbound_payload_len = 0
  /\ inbound_payload_len = 0
  /\ rx_thrs = 1
  /\ tx_thrs = 1
  /\ big_endian \in BOOLEAN
  /\ pc = [p \in Procs |-> "idle"]
  /\ args = [p \in Procs |-> CHOOSE a \in Commands : TRUE]
  /\ num_not_written = [p \in Procs |-> 0]
  /\ stat = [p \in Procs |-> NONE]
  /\ crc = [p \in Procs |-> <<>>]
  /\ ret = [p \in Procs |-> NONE]
  /\ io = <<>>
  /\ ev = <<>>
  /\ txn = <<>>
  /\ script = 0
  /\ handshake = 0

(***************************************************************************)
(* Progress along the scripted success sequence of a write command:        *)
(* 1 write_object admitted, 2 transmit buffer reported free, 3 begin-ack   *)
(* 'O' receivable, 4 transmit buffer reported free again, 5 end-ack 'O'    *)
(* receivable; 0 when the run is not on the script.                        *)
(***************************************************************************)
script_event(s, rxavail, txfree, byte) ==
  IF s = 1 /\ rxavail = 0 /\ txfree = MAX_PAYLOAD THEN 2
  ELSE IF s = 2 /\ rxavail = 1 /\ byte = ACK_OKAY THEN 3
  ELSE IF s = 3 /\ rxavail = 0 /\ txfree = MAX_PAYLOAD THEN 4
  ELSE IF s = 4 /\ rxavail = 1 /\ byte = ACK_OKAY THEN 5
  ELSE 0

\* the bytes a step read with rt_spread
BytesRead(ops) ==
  {ops[i].bytes[1] : i \in {j \in DOMAIN ops : ops[j].op = "rt_spread"}}

(***************************************************************************)
(* Progress of the handshake of a transaction: 1 the transport accepted    *)
(* the opcode byte (line 169 sets it), 2 an event then reported the        *)
(* transmit buffer fully free, 3 a begin-ack 'O' was then read; ops are    *)
(* the transport calls the event handler made.                             *)
(***************************************************************************)
handshake_event(h, txfree, ops) ==
  IF h = 1 /\ txfree = MAX_PAYLOAD THEN 2
  ELSE IF h = 2 /\ ACK_OKAY \in BytesRead(ops) THEN 3
  ELSE h

(***************************************************************************)
(* write_object, one action per statement                                  *)
(***************************************************************************)
goto(p, label) == pc' = [pc EXCEPT ![p] = label]

\* a context calls write_object(index, subindex, nodeid, data)
Call(p, a) ==
  /\ pc[p] = "idle"
  /\ pc' = [pc EXCEPT ![p] = "l218"]
  /\ args' = [args EXCEPT ![p] = a]
  /\ num_not_written' = [num_not_written EXCEPT ![p] = 0]
  /\ stat' = [stat EXCEPT ![p] = NONE]
  /\ crc' = [crc EXCEPT ![p] = <<>>]
  /\ io' = <<>>
  /\ ev' = <<>>
  /\ handshake' = handshake
  /\ script' = IF script = 5 THEN 5 ELSE 0
  /\ UNCHANGED <<drv, thrs, big_endian, ret, txn>>

\* if (state != READY) return DRIVER_BUSY;
\* (variant: busy only while a byte is being sent)
busy_only_while_sending(s) == s \in {SENDING_OPCODE, SENDING_DATA}

busy(s) == s # READY

L218(p) ==
  /\ pc[p] = "l218"
  /\ IF busy(state)
       THEN /\ ret' = [ret EXCEPT ![p] = DRIVER_BUSY]
            /\ goto(p, "idle")
       ELSE /\ ret' = ret
            /\ goto(p, "l169")
  /\ io' = <<>>
  /\ ev' = <<>>
  /\ handshake' = handshake
  /\ script' = 0
  /\ UNCHANGED <<drv, thrs, big_endian, args, num_not_written, stat, crc, txn>>

\* send_opcode: int num_not_written = rt_spwrite(ser_port, &opcode, 1);
L169(p) ==
  /\ pc[p] = "l169"
  /\ \E n \in rt_spwrite_results(1) :
       /\ num_not_written' = [num_not_written EXCEPT ![p] = n]
       /\ io' = <<IoWrite("opcode", <<OPCODE>>, 1, n)>>
       /\ handshake' = IF n = 0 THEN 1 ELSE 0
  /\ ev' = <<>>
  /\ goto(p, "l171")
  /\ UNCHANGED <<drv, thrs, big_endian, args, stat, crc, ret, txn, script>>

\* send_opcode: switch (num_not_written), and stat = send_opcode(opcode)
send_opcode_status(n) ==
  IF n = 0 THEN SUCCESS
  ELSE IF n = 1 THEN SERIAL_BUF_FULL
  ELSE UNEXPECTED_ERROR

\* send_opcode: state after the switch, s being the state before it
\* (variant: state = SENDING_OPCODE assigned ahead of the switch)
send_opcode_state_unconditional(n, s) == SENDING_OPCODE

\* (variant: the driver awaits the ack as soon as the opcode is accepted)
send_opcode_state_awaits_ack(n, s) == IF n = 0 THEN WAITING_BEGIN_ACK ELSE s

send_opcode_state(n, s) == IF n = 0 THEN SENDING_OPCODE ELSE s

L171(p) ==
  /\ pc[p] = "l171"
  /\ stat' = [stat EXCEPT ![p] = send_opcode_status(num_not_written[p])]
  /\ state' = send_opcode_state(num_not_written[p], state)
  /\ txn' = IF num_not_written[p] = 0 THEN args[p] ELSE txn
  /\ goto(p, "l221")
  /\ io' = <<>>
  /\ ev' = <<>>
  /\ handshake' = handshake
  /\ UNCHANGED <<outbound_payload, outbound_payload_len, inbound_payload_len,
                 thrs, big_endian, args, num_not_written, crc, ret, script>>

\* if (stat != SUCCESS) return stat;
L221(p) ==
  /\ pc[p] = "l221"
  /\ IF stat[p] # SUCCESS
       THEN /\ ret' = [ret EXCEPT ![p] = stat[p]]
            /\ goto(p, "idle")
       ELSE /\ ret' = ret
            /\ goto(p, "l224")
  /\ io' = <<>>
  /\ ev' = <<>>
  /\ handshake' = handshake
  /\ UNCHANGED <<drv, thrs, big_endian, args, num_not_written, stat, crc, txn,
                 script>>

\* a statement of write_object that stores into outbound_payload
fill(p, from, to, payload) ==
  /\ pc[p] = from
  /\ outbound_payload' = payload
  /\ goto(p, to)
  /\ io' = <<>>
  /\ ev' = <<>>
  /\ handshake' = handshake
  /\ UNCHANGED <<state, outbound_payload_len, inbound_payload_len, thrs,
                 big_endian, args, num_not_written, stat, crc, ret, txn, script>>

\* outbound_payload[0] = 3;
L224(p) ==
  fill(p, "l224", "l225", [outbound_payload EXCEPT ![1] = 3])

\* index_union = {__cpu_to_le16(index)};
\* memcpy(outbound_payload + 1, index_union.bytes, 2);
\* (variant: index stored without __cpu_to_le16)
index_bytes_host_order(index, be) == union_bytes(word(index, 2), be)

index_bytes(index, be) == union_bytes(cpu_to_le(word(index, 2), be), be)

L225(p) ==
  fill(p, "l225", "l226",
       memcpy(outbound_payload, 1, index_bytes(args[p][1], big_endian)))

\* outbound_payload[3] = subindex;
L226(p) ==
  fill(p, "l226", "l227", [outbound_payload EXCEPT ![4] = args[p][2]])

\* outbound_payload[4] = nodeid;
L227(p) ==
  fill(p, "l227", "l228", [outbound_payload EXCEPT ![5] = args[p][3]])

\* data_union = {__cpu_to_le32(data)};
\* memcpy(outbound_payload + 5, data_union.bytes, 4);
data_bytes(data, be) == union_bytes(cpu_to_le(word(data, 4), be), be)

L228(p) ==
  fill(p, "l228", "l231",
       memcpy(outbound_payload, 5, data_bytes(args[p][4], big_endian)))

\* crc.word = crc_ccitt_byte(0, opcode);
\* crc.word = __cpu_to_le16(crc_ccitt(crc.word, outbound_payload, 9));
crc_bytes(payload, be) ==
  union_bytes(cpu_to_le(word(crc_ccitt(crc_ccitt_byte(0, OPCODE), payload, 9),
                             2), be), be)

L231(p) ==
  /\ pc[p] = "l231"
  /\ crc' = [crc EXCEPT ![p] = crc_bytes(outbound_payload, big_endian)]
  /\ goto(p, "l235")
  /\ io' = <<>>
  /\ ev' = <<>>
  /\ handshake' = handshake
  /\ UNCHANGED <<drv, thrs, big_endian, args, num_not_written, stat, ret, txn,
                 script>>

\* memcpy(outbound_payload + 9, crc.bytes, 2);
L235(p) ==
  fill(p, "l235", "l237", memcpy(outbound_payload, 9, crc[p]))

\* outbound_payload_len = 11;
L237(p) ==
  /\ pc[p] = "l237"
  /\ outbound_payload_len' = FRAME_LEN
  /\ goto(p, "l238")
  /\ io' = <<>>
  /\ ev' = <<>>
  /\ handshake' = handshake
  /\ UNCHANGED <<state, outbound_payload, inbound_payload_len, thrs,
                 big_endian, args, num_not_written, stat, crc, ret, txn, script>>

\* return SUCCESS;
L238(p) ==
  /\ pc[p] = "l238"
  /\ ret' = [ret EXCEPT ![p] = SUCCESS]
  /\ goto(p, "idle")
  /\ io' = <<>>
  /\ ev' = <<>>
  /\ handshake' = handshake
  /\ script' = IF state = SENDING_OPCODE THEN 1 ELSE 0
  /\ UNCHANGED <<drv, thrs, big_endian, args, num_not_written, stat, crc, txn>>

write_object(p) ==
  \/ L218(p) \/ L169(p) \/ L171(p) \/ L221(p)
  \/ L224(p) \/ L225(p) \/ L226(p) \/ L227(p) \/ L228(p)
  \/ L231(p) \/ L235(p) \/ L237(p) \/ L238(p)

(***************************************************************************)
(* The transport event handler.  It runs to completion: one action.        *)
(***************************************************************************)
\* send_payload, after rt_spset_thrs(ser_port, 1, outbound_payload_len):
\* the state for the value n that rt_spwrite returned
\* (variant: an accepted payload is taken as already sent)
send_payload_state_sent(n) == IF n # 0 THEN READY ELSE WAITING_END_ACK

send_payload_state(n) == IF n # 0 THEN READY ELSE SENDING_DATA

\* (variant: the count is passed as it is)
payload_count_as_many_as_fit(len) == len

\* the count send_payload passes to rt_spwrite: -outbound_payload_len
payload_count(len) == -len

send_payload(pre) ==
  \E n \in rt_spwrite_results(payload_count(outbound_payload_len)) :
    /\ rx_thrs' = 1
    /\ tx_thrs' = outbound_payload_len
    /\ state' = send_payload_state(n)
    /\ io' = pre \o << IoThrs(1, outbound_payload_len),
                       IoWrite("outbound_payload",
                               SubSeq(outbound_payload, 1, outbound_payload_len),
                               payload_count(outbound_payload_len), n) >>

\* read_begin_ack: rt_spread delivers the byte at the head of the receive
\* buffer
\* (variant: the byte read is not compared)
ack_unchecked(ack) == TRUE

ack_okay(ack) == ack = ACK_OKAY

read_begin_ack(byte) ==
  IF ack_okay(byte)
    THEN send_payload(<<IoRead(byte)>>)
    ELSE /\ state' = READY
         /\ io' = <<IoRead(byte)>>
         /\ UNCHANGED thrs

\* if (txfree == MAX_PAYLOAD)
tx_done_room_for_frame(txfree) == txfree >= FRAME_LEN

tx_done(txfree) == txfree = MAX_PAYLOAD

\* if (rxavail == 1)
ack_available(rxavail) == rxavail = 1

\* (variant: case READY has no return and falls into case SENDING_OPCODE)
switch_case_falls_through(s) == IF s = READY THEN SENDING_OPCODE ELSE s

\* switch (state): the case whose statements run when state is s
switch_case(s) == s

serial_callback(rxavail, txfree, byte) ==
  /\ CASE switch_case(state) = READY ->
            /\ io' = <<>>
            /\ UNCHANGED <<state, thrs>>
       [] switch_case(state) = SENDING_OPCODE ->
            /\ state' = IF tx_done(txfree) THEN WAITING_BEGIN_ACK ELSE state
            /\ io' = <<>>
            /\ UNCHANGED thrs
       [] switch_case(state) = WAITING_BEGIN_ACK ->
            IF ack_available(rxavail)
              THEN read_begin_ack(byte)
              ELSE /\ io' = <<>>
                   /\ UNCHANGED <<state, thrs>>
       [] switch_case(state) = SENDING_DATA ->
            /\ state' = IF tx_done(txfree) THEN WAITING_END_ACK ELSE state
            /\ io' = <<>>
            /\ UNCHANGED thrs
       [] OTHER ->
            /\ io' = <<>>
            /\ UNCHANGED <<state, thrs>>
  /\ ev' = <<rxavail, txfree>>
  /\ handshake' = handshake_event(handshake, txfree, io')
  /\ script' = script_event(script, rxavail, txfree, byte)
  /\ UNCHANGED <<outbound_payload, outbound_payload_len, inbound_payload_len,
                 big_endian, locals, txn>>

\* a transport event: rxavail bytes are receivable, the first of them byte,
\* and txfree bytes of the transmit buffer are free
Event ==
  \E rxavail \in RxAvails, txfree \in TxFrees, byte \in AckBytes :
    serial_callback(rxavail, txfree, byte)

(***************************************************************************)
(* Specifications                                                          *)
(***************************************************************************)
\* the two contexts of the driver: one caller of write_object, preempted
\* between any two statements by the event handler
Next ==
  \/ \E a \in Commands : Call("c1", a)
  \/ write_object("c1")
  \/ Event

Spec == Init /\ [][Next]_vars

\* two concurrent callers, each issuing one command, interleaved statement
\* by statement with each other
CallOnce(p, a) ==
  /\ ret[p] = NONE
  /\ Call(p, a)

NextRace ==
  \/ \E p \in Procs, a \in Commands : CallOnce(p, a)
  \/ \E p \in Procs : write_object(p)

SpecRace == Init /\ [][NextRace]_vars

\* the two contexts of Spec, where a call that has started runs to its
\* return and the caller keeps issuing commands; no event is ever owed by
\* the transport
LiveSpec ==
  /\ Spec
  /\ WF_vars(write_object("c1"))
  /\ WF_vars(\E a \in Commands : Call("c1", a))

(***************************************************************************)
(* Reference encoding of a write-object frame, from the wire format:       *)
(* byte 0 = 3, index little-endian, subindex, nodeid, data little-endian,  *)
(* then the little-endian CRC-CCITT (seed 0, computed bit by bit, least    *)
(* significant bit first) of the opcode followed by those nine bytes.      *)
(***************************************************************************)
RECURSIVE Pow256(_)
Pow256(k) == IF k = 0 THEN 1 ELSE 256 * Pow256(k - 1)

RefLittleEndian(x, n) == [i \in 1..n |-> (x \div Pow256(i - 1)) % 256]

RECURSIVE RefCrcBits(_, _, _)
RefCrcBits(c, byte, k) ==
  IF k = 0 THEN c
  ELSE IF (c % 2) # (byte % 2)
         THEN RefCrcBits(Xor(c \div 2, CRC_POLY), byte \div 2, k - 1)
         ELSE RefCrcBits(c \div 2, byte \div 2, k - 1)

RECURSIVE RefCrc(_, _)
RefCrc(c, msg) ==
  IF msg = <<>> THEN c ELSE RefCrc(RefCrcBits(c, Head(msg), 8), Tail(msg))

RefFrame(cmd) ==
  LET body == <<3>> \o RefLittleEndian(cmd[1], 2) \o <<cmd[2], cmd[3]>>
                    \o RefLittleEndian(cmd[4], 4)
  IN  body \o RefLittleEndian(RefCrc(0, <<OPCODE>> \o body), 2)

RefFrameOf == [cmd \in Commands |-> RefFrame(cmd)]

\* the transport calls of a step that hand outbound_payload to rt_spwrite
PayloadWrites(ops) ==
  {i \in DOMAIN ops : ops[i].op = "rt_spwrite" /\ ops[i].buf = "outbound_payload"}

\* the transport calls of a step that hand the opcode byte to rt_spwrite
OpcodeWrites(ops) ==
  {i \in DOMAIN ops : ops[i].op = "rt_spwrite" /\ ops[i].buf = "opcode"}

\* the terminal outcomes a step delivers to the caller of the transaction
OutcomesReported(ops) ==
  {i \in DOMAIN ops : ops[i].op = "report_outcome"}

(***************************************************************************)
(* Claims                                                                  *)
(***************************************************************************)

\* C1: a write_object that finds state != READY returns DRIVER_BUSY, makes
\* no transport call and leaves state, outbound_payload and
\* outbound_payload_len as they were.
C1_BusyRejected ==
  [][\A p \in Procs :
       (pc[p] = "l218" /\ pc'[p] # "l218" /\ state # READY)
         => /\ pc'[p] = "idle"
            /\ ret'[p] = DRIVER_BUSY
            /\ io' = <<>>
            /\ UNCHANGED <<state, outbound_payload, outbound_payload_len>>]_vars

C1_Witness ==
  /\ pc["c1"] = "idle"
  /\ ret["c1"] = DRIVER_BUSY
  /\ state = WAITING_BEGIN_ACK
  /\ outbound_payload_len = FRAME_LEN

\* C2: when rt_spwrite does not accept the opcode byte, write_object returns
\* SERIAL_BUF_FULL (1 byte not written) or UNEXPECTED_ERROR (any other
\* non-zero value) with state still READY, and no step from the call to its
\* return changes outbound_payload or outbound_payload_len.
C2_OpcodeRefused ==
  [][\A p \in Procs :
       /\ pc'[p] \in {"l218", "l169", "l171", "l221"}
            => UNCHANGED <<outbound_payload, outbound_payload_len>>
       /\ (pc[p] = "l171" /\ pc'[p] = "l221" /\ num_not_written[p] # 0)
            => /\ state = READY
               /\ UNCHANGED <<state, outbound_payload, outbound_payload_len>>
       /\ (pc[p] = "l221" /\ pc'[p] # "l221" /\ num_not_written[p] # 0)
            => /\ pc'[p] = "idle"
               /\ ret'[p] = IF num_not_written[p] = 1 THEN SERIAL_BUF_FULL
                                                      ELSE UNEXPECTED_ERROR
               /\ state' = READY
               /\ UNCHANGED <<state, outbound_payload, outbound_payload_len>>]_vars

C2_Witness ==
  /\ pc["c1"] = "idle"
  /\ ret["c1"] = SERIAL_BUF_FULL
  /\ num_not_written["c1"] = 1
  /\ state = READY
  /\ outbound_payload_len = FRAME_LEN

\* C3: when two concurrent write_object calls have both returned and the
\* transport accepted every byte it was given, exactly one of them returned
\* SUCCESS, the other returned DRIVER_BUSY, and the opcode byte was written
\* once.
C3_Claim ==
  ( /\ \A p \in Procs : pc[p] = "idle" /\ ret[p] # NONE
    /\ \A p \in Procs : stat[p] \in {NONE, SUCCESS} )
  => /\ \E p \in Procs :
          /\ ret[p] = SUCCESS
          /\ \A q \in Procs \ {p} : ret[q] = DRIVER_BUSY
     /\ Cardinality({p \in Procs : stat[p] = SUCCESS}) = 1

\* C4: whatever send_payload hands to rt_spwrite is the complete 11-byte
\* frame encoded from the arguments of the command whose opcode was sent.
C4_Claim ==
  \A i \in PayloadWrites(io) :
    /\ txn \in Commands
    /\ io[i].bytes = RefFrameOf[txn]

\* C5: after the scripted success sequence (write_object admitted, transmit
\* buffer reported free, begin-ack 'O' receivable, transmit buffer reported
\* free again, end-ack 'O' receivable) state is READY again.
C5_Claim == script = 5 => state = READY

\* C6: when the byte read in WAITING_BEGIN_ACK is not 'O', state becomes
\* READY and nothing of outbound_payload is handed to the transport.
C6_NackAborts ==
  [][(state = WAITING_BEGIN_ACK /\ BytesRead(io') \ {ACK_OKAY} # {})
       => /\ state' = READY
          /\ PayloadWrites(io') = {}
          /\ OpcodeWrites(io') = {}]_vars

C6_Witness ==
  /\ state = READY
  /\ io = <<IoRead(NackByte)>>
  /\ outbound_payload_len = FRAME_LEN

\* C7: no step takes the driver from a state other than READY back to READY
\* without delivering a terminal outcome to the caller.
C7_Claim ==
  [][(state # READY /\ state' = READY) => OutcomesReported(io') # {}]_vars

\* C8: whenever state = READY and no write_object call is in progress, the
\* shared buffers are cleared: outbound_payload_len = 0 and
\* inbound_payload_len = 0.
C8_Claim ==
  (state = READY /\ \A p \in Procs : pc[p] = "idle")
    => (outbound_payload_len = 0 /\ inbound_payload_len = 0)

\* C9: the driver does not stay in WAITING_BEGIN_ACK for ever: when the
\* expected event does not come, a timeout returns state to READY.
C9_Claim == (state = WAITING_BEGIN_ACK) ~> (state # WAITING_BEGIN_ACK)

\* C10: when an admitted write_object has run to its return,
\* outbound_payload_len is 11 and the first 11 bytes of outbound_payload
\* are the reference encoding of the call's (index, subindex, nodeid, data).
C10_Encoding ==
  \A p \in Procs :
    (pc[p] = "idle" /\ ret[p] = SUCCESS)
      => /\ outbound_payload_len = FRAME_LEN
         /\ SubSeq(outbound_payload, 1, FRAME_LEN) = RefFrameOf[args[p]]

C10_Witness ==
  /\ pc["c1"] = "idle"
  /\ ret["c1"] = SUCCESS
  /\ args["c1"] = <<24831, 1, 2, 305419896>>
  /\ big_endian
  /\ SubSeq(outbound_payload, 1, 9) = <<3, 255, 96, 1, 2, 120, 86, 52, 18>>

\* the last step ran the event handler
EventHandled == Len(ev') = 2

\* C11: in WAITING_BEGIN_ACK an event that reports two or more receivable
\* bytes does not leave the driver in WAITING_BEGIN_ACK with the bytes
\* unread: it reads the acknowledgement or the state leaves
\* WAITING_BEGIN_ACK.
C11_Claim ==
  [][(state = WAITING_BEGIN_ACK /\ EventHandled /\ ev'[1] >= 2)
       => (state' # WAITING_BEGIN_ACK \/ BytesRead(io') # {})]_vars

\* C12: in SENDING_OPCODE and SENDING_DATA an event advances the state, to
\* WAITING_BEGIN_ACK and WAITING_END_ACK respectively, exactly when it
\* reports txfree = MAX_PAYLOAD; every other event leaves the state and the
\* buffers as they were, and no event read a byte, whatever rxavail is.
C12_TxFreeAdvances ==
  [][(state \in {SENDING_OPCODE, SENDING_DATA} /\ EventHandled)
       => /\ (state' # state) <=> (ev'[2] = MAX_PAYLOAD)
          /\ state' # state
               => state' = (IF state = SENDING_OPCODE THEN WAITING_BEGIN_ACK
                            ELSE WAITING_END_ACK)
          /\ ev'[2] # MAX_PAYLOAD
               => UNCHANGED <<state, outbound_payload, outbound_payload_len,
                              inbound_payload_len>>
          /\ BytesRead(io') = {}]_vars

C12_Witness ==
  /\ state = SENDING_DATA
  /\ ev = <<MaxRxAvail, FRAME_LEN>>

\* C13: the handshake order holds within a transaction: a step hands the
\* payload to the transport only when, since the opcode byte was accepted,
\* the transmit buffer has been reported fully free and then a begin-ack
\* 'O' has been read, that read coming before the payload write; and no
\* step reads the ack byte before the opcode has been reported sent.
C13_HandshakeOrder ==
  [][/\ \A j \in PayloadWrites(io') :
          /\ handshake = 2
          /\ handshake' = 3
          /\ \E i \in 1..(j - 1) : io'[i] = IoRead(ACK_OKAY)
     /\ BytesRead(io') # {} => handshake = 2]_vars

C13_Witness ==
  /\ handshake = 3
  /\ state = SENDING_DATA
  /\ PayloadWrites(io) # {}
  /\ io[1] = IoRead(ACK_OKAY)

\* C14: the payload is handed to the transport in one write of
\* outbound_payload_len bytes that is all or nothing: either the transport
\* accepted every byte and state becomes SENDING_DATA, or it accepted none
\* and state becomes READY; and SENDING_DATA is entered only by a step whose
\* payload write was accepted whole.
C14_AllOrNothing ==
  [][/\ Cardinality(PayloadWrites(io')) <= 1
     /\ \A j \in PayloadWrites(io') :
          /\ io'[j].bytes = SubSeq(outbound_payload, 1, outbound_payload_len)
          /\ \/ /\ rt_spwrite_accepted(io'[j].count, io'[j].res)
                     = outbound_payload_len
                /\ state' = SENDING_DATA
             \/ /\ rt_spwrite_accepted(io'[j].count, io'[j].res) = 0
                /\ state' = READY
     /\ (state # SENDING_DATA /\ state' = SENDING_DATA)
          => \E j \in PayloadWrites(io') :
               rt_spwrite_accepted(io'[j].count, io'[j].res)
                 = outbound_payload_len]_vars

C14_Witness ==
  /\ state = READY
  /\ outbound_payload_len = FRAME_LEN
  /\ \E j \in PayloadWrites(io) : io[j].res = FRAME_LEN

\* the transport calls of a step that set the event thresholds
ThresholdCalls(ops) == {i \in DOMAIN ops : ops[i].op = "rt_spset_thrs"}

\* C15: every step that changes state reconfigures the transport event
\* thresholds for the state it enters: it calls rt_spset_thrs, with 1 byte
\* receivable when it enters a state that awaits an ack and with the number
\* of bytes being sent when it enters a sending state.
C15_Claim ==
  [][state' # state
       => /\ ThresholdCalls(io') # {}
          /\ state' \in {WAITING_BEGIN_ACK, WAITING_END_ACK} => rx_thrs' = 1
          /\ state' = SENDING_OPCODE => tx_thrs' = 1
          /\ state' = SENDING_DATA => tx_thrs' = outbound_payload_len]_vars

\* the changes of state the claim C16 allows
StateEdges ==
  { <<READY, SENDING_OPCODE>>,
    <<SENDING_OPCODE, WAITING_BEGIN_ACK>>,
    <<WAITING_BEGIN_ACK, SENDING_DATA>>,
    <<WAITING_BEGIN_ACK, READY>>,
    <<SENDING_DATA, WAITING_END_ACK>> }

\* C16: state starts at READY and every step that changes it follows one of
\* the edges READY -> SENDING_OPCODE, SENDING_OPCODE -> WAITING_BEGIN_ACK,
\* WAITING_BEGIN_ACK -> SENDING_DATA, WAITING_BEGIN_ACK -> READY,
\* SENDING_DATA -> WAITING_END_ACK; the states WAITING_RESPONSE_LEN,
\* WAITING_RESPONSE_DATA and SENDING_RESPONSE_ACK are never reached.
C16_StateEdges ==
  /\ state = READY
  /\ [][/\ state' # state => <<state, state'>> \in StateEdges
        /\ state' \notin {WAITING_RESPONSE_LEN, WAITING_RESPONSE_DATA,
                          SENDING_RESPONSE_ACK}]_vars

C16_Witness ==
  /\ state = WAITING_END_ACK
  /\ ev = <<0, MAX_PAYLOAD>>
  /\ handshake = 3

\* C17: a step of the event handler leaves outbound_payload and
\* outbound_payload_len as they were, whatever the state; and when
\* state = READY it changes nothing: state stays READY, no transport call
\* is made, the thresholds and the buffers keep their values.
C17_HandlerFrame ==
  [][EventHandled
       => /\ UNCHANGED <<outbound_payload, outbound_payload_len>>
          /\ state = READY
               => /\ state' = READY
                  /\ io' = <<>>
                  /\ UNCHANGED <<thrs, inbound_payload_len>>]_vars

C17_Witness ==
  /\ state = READY
  /\ ev = <<MaxRxAvail, MAX_PAYLOAD>>
  /\ outbound_payload_len = FRAME_LEN

====
